---------------------------- MODULE Spec2Model ----------------------------
(***************************************************************************)
(* Model of the task orchestration and real-time progress pipeline of the *)
(* video-summary front end:                                                *)
(*   - MiniMaxService.streamSummary   (stream reassembler)                 *)
(*   - WebSocketService               (push channel client)                *)
(*   - useQueueStore                  (task store)                         *)
(*   - ProgressPanel / ProcessingQueue (orchestration bridge)              *)
(* Three specifications share the module: StreamSpec, WsSpec and Spec      *)
(* (store + bridge).  Each leaves the variables of the others untouched.   *)
(***************************************************************************)
EXTENDS Integers, Sequences, FiniteSets, TLC

(***************************************************************************)
(* Bounds of the model.                                                    *)
(***************************************************************************)
MaxFrames == 3
MaxSockets == 3
MaxTimers == 2
MaxTasks == 1
MaxQueued == 2
MaxTemplates == 3
MaxStarts == 2
MaxSends == 2
MaxProcs == 4

\* JavaScript's undefined / null.
Undef == "undefined"

\* The state of streamSummary, of the WebSocketService and of the store and
\* the panels; each group is described at the head of its section.
VARIABLES frames, lastTerminated, wire, pending, buffer, summary, chunks,
          progressLog, spc, result, failure, nreads,
          sockets, ws, reconnectTimer, timers, wsOp, disconnected,
          sendCount, transmitted, dropped,
          tasks, nextId, summarizing, calls, activeTab, lastOp, effects,
          settings, sendCalls, warnings,
          listeners, subscribed, invoked,
          procs, process, pyOp

streamVars == <<frames, lastTerminated, wire, pending, buffer, summary, chunks,
                progressLog, spc, result, failure, nreads>>
outVars == <<sendCount, transmitted, dropped>>
wsVars == <<sockets, ws, reconnectTimer, timers, wsOp, disconnected, outVars>>
bridgeVars == <<tasks, nextId, summarizing, calls, activeTab, lastOp,
               effects>>
startVars == <<settings, sendCalls, warnings>>
listenVars == <<listeners, subscribed, invoked>>
pyVars == <<procs, process, pyOp>>
vars == <<streamVars, wsVars, bridgeVars, startVars, listenVars, pyVars>>

\* The frame condition of the actions of each component.
OnlyStream == UNCHANGED <<wsVars, bridgeVars, startVars, listenVars, pyVars>>
OnlyWs == UNCHANGED <<streamVars, bridgeVars, startVars, listenVars, pyVars>>
OnlyBridge == UNCHANGED <<streamVars, wsVars, startVars, listenVars, pyVars>>

(***************************************************************************)
(*                      STREAM REASSEMBLER                                 *)
(*                                                                         *)
(* Text is a sequence of one-character strings, the wire a sequence of     *)
(* bytes.  ASCII bytes are written as their character; the two-byte UTF-8  *)
(* character U+00E9 is the byte pair 0xC3 0xA9.  The JSON payload of a     *)
(* frame is abbreviated to a short object text "{", tag, value, "}" that   *)
(* still spans several bytes, so that a read boundary can fall inside the  *)
(* prefix, the payload, a character and the separator.                     *)
(***************************************************************************)
NL == "\n"
Separator == <<NL, NL>>
Prefix == <<"d", "a", "t", "a", ":", " ">>
Whitespace == {" ", NL}

FrameKinds == {"chunkA", "chunkE9", "chunkEmpty", "chunkSpace", "done",
               "error", "errorEmpty", "null", "bad", "comment"}

\* The bytes of one frame on the wire, without its separator.
PayloadBytes(k) ==
  CASE k = "chunkA"     -> <<"{", "c", "A", "}">>
    [] k = "chunkE9"    -> <<"{", "c", "0xC3", "0xA9", "}">>
    [] k = "chunkEmpty" -> <<"{", "c", "}">>
    [] k = "chunkSpace" -> <<"{", "c", " ", "}">>
    [] k = "done"       -> <<"{", "d", "}">>
    [] k = "error"      -> <<"{", "e", "E", "}">>
    [] k = "errorEmpty" -> <<"{", "e", "}">>
    [] k = "null"       -> <<"n", "u", "l", "l">>
    [] k = "bad"        -> <<"{", "c", "A">>
    [] k = "comment"    -> <<":", "k">>

FrameBytes(k) ==
  IF k = "comment" THEN PayloadBytes(k) ELSE Prefix \o PayloadBytes(k)

RECURSIVE WireOf(_, _)
WireOf(fs, lastTerm) ==
  IF fs = <<>> THEN <<>>
  ELSE FrameBytes(Head(fs))
       \o (IF Len(fs) > 1 \/ lastTerm THEN Separator ELSE <<>>)
       \o WireOf(Tail(fs), lastTerm)

\* TextDecoder('utf-8').decode(value, {stream: true}): an incomplete
\* character at the end of a read is held back until the next read.
RECURSIVE Utf8Decode(_, _, _)
Utf8Decode(held, bytes, out) ==
  IF bytes = <<>> THEN [text |-> out, held |-> held]
  ELSE LET b == Head(bytes) IN
       IF held # <<>>
       THEN IF b = "0xA9"
            THEN Utf8Decode(<<>>, Tail(bytes), Append(out, "U+00E9"))
            ELSE Utf8Decode(<<>>, bytes, Append(out, "U+FFFD"))
       ELSE IF b = "0xC3" THEN Utf8Decode(<<b>>, Tail(bytes), out)
       ELSE IF b = "0xA9" THEN Utf8Decode(<<>>, Tail(bytes), Append(out, "U+FFFD"))
       ELSE Utf8Decode(<<>>, Tail(bytes), Append(out, b))

\* decode without the stream flag: every read is decoded on its own.
DecodeRead_NoStream(held, bytes) ==
  LET d == Utf8Decode(<<>>, bytes, <<>>) IN
  [text |-> d.text \o (IF d.held # <<>> THEN <<"U+FFFD">> ELSE <<>>),
   held |-> <<>>]

DecodeRead(held, bytes) == Utf8Decode(held, bytes, <<>>)

\* buffer.indexOf('\n\n'), 1-based; 0 when absent.
IndexOfSeparator(buf) ==
  LET hits == {i \in 1..(Len(buf) - 1) : buf[i] = NL /\ buf[i + 1] = NL}
  IN IF hits = {} THEN 0 ELSE CHOOSE i \in hits : \A j \in hits : i <= j

StartsWith(s, p) == Len(s) >= Len(p) /\ SubSeq(s, 1, Len(p)) = p

\* JSON.parse on the payload texts of the model: an object with its fields,
\* the value null, or a SyntaxError.
JSONParse(s) ==
  CASE s = <<"{", "c", "A", "}">>      -> [kind |-> "object", type |-> "chunk", text |-> <<"A">>]
    [] s = <<"{", "c", "U+00E9", "}">> -> [kind |-> "object", type |-> "chunk", text |-> <<"U+00E9">>]
    [] s = <<"{", "c", "}">>           -> [kind |-> "object", type |-> "chunk", text |-> <<>>]
    [] s = <<"{", "c", " ", "}">>      -> [kind |-> "object", type |-> "chunk", text |-> <<" ">>]
    [] s = <<"{", "d", "}">>           -> [kind |-> "object", type |-> "done"]
    [] s = <<"{", "e", "E", "}">>      -> [kind |-> "object", type |-> "error", message |-> "E"]
    [] s = <<"{", "e", "}">>           -> [kind |-> "object", type |-> "error", message |-> ""]
    [] s = <<"n", "u", "l", "l">>      -> [kind |-> "null"]
    [] OTHER                           -> [kind |-> "SyntaxError"]

\* summary += data.text
AppendChunk_Prepend(sum, text) == text \o sum

AppendChunk(sum, text) == sum \o text

\* catch (e) { if (e instanceof SyntaxError) continue; throw e }
OnSyntaxError_Rethrow == "throw"

OnSyntaxError == "continue"

\* buffer += decoder.decode(value, { stream: true })
AppendRead_Replace(buf, text) == text

AppendRead(buf, text) == buf \o text

\* One frame: the effect of the body of the inner while loop on a line.
\* st = [summary, chunks, progress, status, error]
\* What a done frame does to the call.
OnDone_Continue == "run"

OnDone == "return"

\* data.message || <the default text>
ErrorOf_Default(data) == "SummaryFailed"

ErrorOf(data) ==
  IF data.message \notin {Undef, ""} THEN data.message ELSE "SummaryFailed"

ProcessLine(line, st) ==
  IF ~StartsWith(line, Prefix) THEN st
  ELSE LET data == JSONParse(SubSeq(line, Len(Prefix) + 1, Len(line))) IN
       CASE data.kind = "SyntaxError" ->
              IF OnSyntaxError = "continue" THEN st
              ELSE [st EXCEPT !.status = "throw", !.error = "SyntaxError"]
         [] data.kind = "null" ->
              [st EXCEPT !.status = "throw", !.error = "TypeError"]
         [] data.type = "chunk" /\ data.text # <<>> ->
              [st EXCEPT !.summary = AppendChunk(st.summary, data.text),
                         !.chunks = Append(st.chunks, data.text)]
         [] data.type = "done" ->
              [st EXCEPT !.progress = Append(st.progress, 95),
                         !.status = OnDone]
         [] data.type = "error" ->
              [st EXCEPT !.status = "throw", !.error = ErrorOf(data)]
         [] OTHER -> st

\* while (buffer.includes('\n\n')) { ... }
RECURSIVE FrameLoop(_, _)
FrameLoop(buf, st) ==
  LET separatorIndex == IndexOfSeparator(buf) IN
  IF separatorIndex = 0 \/ st.status # "run" THEN [buffer |-> buf, st |-> st]
  ELSE FrameLoop(SubSeq(buf, separatorIndex + 2, Len(buf)),
                 ProcessLine(SubSeq(buf, 1, separatorIndex - 1), st))

\* String.prototype.trim
RECURSIVE TrimLeft(_)
TrimLeft(s) ==
  IF s # <<>> /\ Head(s) \in Whitespace THEN TrimLeft(Tail(s)) ELSE s

RECURSIVE TrimRight(_)
TrimRight(s) ==
  IF s # <<>> /\ s[Len(s)] \in Whitespace
  THEN TrimRight(SubSeq(s, 1, Len(s) - 1)) ELSE s

Trim(s) == TrimRight(TrimLeft(s))

\* The code after the read loop: stream closed without a done frame.
EndOfStream(st) ==
  IF Trim(st.summary) = <<>>
  THEN [st EXCEPT !.status = "throw", !.error = "EmptyResponse"]
  ELSE [st EXCEPT !.progress = Append(st.progress, 95), !.status = "return"]

\* The initial states: a response stream of at most MaxFrames frames, the
\* last of which may lack its separator; streamSummary not yet called.
StreamIdle ==
  /\ frames = <<>> /\ lastTerminated = TRUE /\ wire = <<>> /\ pending = <<>>
  /\ buffer = <<>> /\ summary = <<>> /\ chunks = <<>> /\ progressLog = <<>>
  /\ spc = "idle" /\ result = <<>> /\ failure = Undef /\ nreads = 0

StreamInit ==
  /\ frames \in UNION {[1..n -> FrameKinds] : n \in 0..MaxFrames}
  /\ lastTerminated \in BOOLEAN
  /\ (frames = <<>> => lastTerminated)
  /\ wire = WireOf(frames, lastTerminated)
  /\ pending = <<>> /\ buffer = <<>> /\ summary = <<>>
  /\ chunks = <<>> /\ progressLog = <<>> /\ spc = "start"
  /\ result = <<>> /\ failure = Undef /\ nreads = 0

\* onProgress(65), then the fetch is awaited.
StreamCall ==
  /\ spc = "start"
  /\ progressLog' = Append(progressLog, 65)
  /\ spc' = "fetch"
  /\ UNCHANGED <<frames, lastTerminated, wire, pending, buffer, summary,
                 chunks, result, failure, nreads>>
  /\ OnlyStream

\* The response arrives: not ok, without body, or with a readable stream.
StreamFetch ==
  /\ spc = "fetch"
  /\ \/ /\ spc' = "rejected" /\ failure' = "RequestFailed"
        /\ UNCHANGED progressLog
     \/ /\ spc' = "rejected" /\ failure' = "NoReadableStream"
        /\ UNCHANGED progressLog
     \/ /\ spc' = "reading" /\ progressLog' = Append(progressLog, 70)
        /\ UNCHANGED failure
  /\ UNCHANGED result
  /\ UNCHANGED <<frames, lastTerminated, wire, pending, buffer, summary,
                 chunks, nreads>>
  /\ OnlyStream

Finish(st) ==
  /\ summary' = st.summary
  /\ chunks' = st.chunks
  /\ progressLog' = st.progress
  /\ spc' = CASE st.status = "return" -> "resolved"
              [] st.status = "throw"  -> "rejected"
              [] OTHER                -> "reading"
  /\ result' = IF st.status = "return" THEN st.summary ELSE <<>>
  /\ failure' = IF st.status = "throw" THEN st.error ELSE Undef

RunState == [summary |-> summary, chunks |-> chunks, progress |-> progressLog,
             status |-> "run", error |-> Undef]

\* reader.read() delivers the next n bytes of the stream.
StreamRead ==
  /\ spc = "reading"
  /\ \E n \in 1..Len(wire) :
       \E d \in {DecodeRead(pending, SubSeq(wire, 1, n))} :
         \E r \in {FrameLoop(AppendRead(buffer, d.text), RunState)} :
           /\ wire' = SubSeq(wire, n + 1, Len(wire))
           /\ pending' = d.held
           /\ buffer' = r.buffer
           /\ Finish(r.st)
           /\ nreads' = IF nreads < 3 THEN nreads + 1 ELSE nreads
  /\ UNCHANGED <<frames, lastTerminated>>
  /\ OnlyStream

\* reader.read() reports done: the stream is closed.
StreamEnd ==
  /\ spc = "reading"
  /\ wire = <<>>
  /\ \E st \in {EndOfStream(RunState)} : Finish(st)
  /\ UNCHANGED <<frames, lastTerminated, wire, pending, buffer, nreads>>
  /\ OnlyStream

StreamNext == StreamCall \/ StreamFetch \/ StreamRead \/ StreamEnd

(***************************************************************************)
(*                      PUSH CHANNEL CLIENT                                *)
(*                                                                         *)
(* sockets[s] is the readyState of the WebSocket object in slot s, "free"  *)
(* once its close event has been delivered (the object is then dead and    *)
(* its slot is reused).  ws is the field this.ws: 0 for null, NoSocket - 1 *)
(* for a reference to a dead (CLOSED) object, else a slot.  timers is the  *)
(* set of timeouts pending in the runtime, reconnectTimer the field (0 for *)
(* null).  wsOp names the last operation and disconnected tells whether    *)
(* disconnect() was the last call of the application on the client.        *)
(***************************************************************************)
NoSocket == 0
ClosedSocket == 0 - 1
Slots == 1..MaxSockets
TimerIds == 1..MaxTimers

Channel == [sockets |-> sockets, ws |-> ws,
            reconnectTimer |-> reconnectTimer, timers |-> timers]

Live(w) == {s \in Slots : w.sockets[s] # "free"}

\* this.ws?.readyState
ReadyState(w) ==
  IF w.ws = NoSocket THEN Undef
  ELSE IF w.ws = ClosedSocket THEN "CLOSED"
  ELSE w.sockets[w.ws]

FreeSlot(w) == CHOOSE s \in Slots : w.sockets[s] = "free"
FreeTimer(w) == CHOOSE t \in TimerIds : t \notin w.timers

\* connect(url): new WebSocket(url) with its four handlers attached.
connect_NoOpenCheck(w) ==
  LET s == FreeSlot(w) IN [w EXCEPT !.ws = s, !.sockets[s] = "CONNECTING"]

connect(w) ==
  IF ReadyState(w) = "OPEN" THEN w
  ELSE LET s == FreeSlot(w) IN
       [w EXCEPT !.ws = s, !.sockets[s] = "CONNECTING"]

\* WebSocket.close(): a connecting or open socket starts closing; its close
\* event is delivered later.
CloseSocket(w, s) ==
  IF s \in Slots /\ w.sockets[s] \in {"CONNECTING", "OPEN"}
  THEN [w EXCEPT !.sockets[s] = "CLOSING"]
  ELSE w

\* disconnect()
disconnect_KeepTimer(w) ==
  IF w.ws # NoSocket THEN [CloseSocket(w, w.ws) EXCEPT !.ws = NoSocket] ELSE w

disconnect(w) ==
  LET w1 == IF w.reconnectTimer # 0
            THEN [w EXCEPT !.timers = @ \ {w.reconnectTimer},
                           !.reconnectTimer = 0]
            ELSE w
  IN IF w1.ws # NoSocket
     THEN [CloseSocket(w1, w1.ws) EXCEPT !.ws = NoSocket]
     ELSE w1

\* scheduleReconnect(url)
scheduleReconnect_NoGuard(w) ==
  LET t == FreeTimer(w) IN
  [w EXCEPT !.reconnectTimer = t, !.timers = @ \cup {t}]

scheduleReconnect_Never(w) == w

scheduleReconnect(w) ==
  IF w.reconnectTimer # 0 THEN w
  ELSE LET t == FreeTimer(w) IN
       [w EXCEPT !.reconnectTimer = t, !.timers = @ \cup {t}]

\* The close event of socket s: the object is CLOSED, then ws.onclose runs.
onclose(w, s) ==
  scheduleReconnect([w EXCEPT !.sockets[s] = "free",
                              !.ws = IF @ = s THEN ClosedSocket ELSE @])

\* The callback given to setTimeout.
reconnectCallback(w, t) ==
  connect([w EXCEPT !.timers = @ \ {t}, !.reconnectTimer = 0])

SetChannel(w) ==
  /\ sockets' = w.sockets
  /\ ws' = w.ws
  /\ reconnectTimer' = w.reconnectTimer
  /\ timers' = w.timers

\* send(data): o = [sendCount, transmitted, dropped].  The messages are
\* numbered by the send call that carries them; transmitted are those handed
\* to the open socket, dropped those answered with console.warn.
send_NoCheck(w, o) ==
  [o EXCEPT !.sendCount = @ + 1, !.transmitted = @ \cup {o.sendCount + 1}]

send(w, o) ==
  IF ReadyState(w) = "OPEN"
  THEN [o EXCEPT !.sendCount = @ + 1, !.transmitted = @ \cup {o.sendCount + 1}]
  ELSE [o EXCEPT !.sendCount = @ + 1, !.dropped = @ \cup {o.sendCount + 1}]

WsIdle ==
  /\ sockets = [s \in Slots |-> "free"]
  /\ ws = NoSocket /\ reconnectTimer = 0 /\ timers = {}
  /\ wsOp = "init" /\ disconnected = FALSE
  /\ sendCount = 0 /\ transmitted = {} /\ dropped = {}

WsInit == WsIdle

\* The application calls wsService.connect().
Connect ==
  /\ \/ ReadyState(Channel) = "OPEN"
     \/ Cardinality(Live(Channel)) + Cardinality(timers) < MaxSockets
  /\ SetChannel(connect(Channel))
  /\ wsOp' = IF connect(Channel) = Channel THEN "connect_noop" ELSE "connect"
  /\ disconnected' = FALSE
  /\ UNCHANGED outVars
  /\ OnlyWs

\* The application calls wsService.disconnect().
Disconnect ==
  /\ SetChannel(disconnect(Channel))
  /\ wsOp' = "disconnect"
  /\ disconnected' = TRUE
  /\ UNCHANGED outVars
  /\ OnlyWs

\* The open event of a socket: ws.onopen.
SocketOpen ==
  /\ \E s \in Slots :
       /\ sockets[s] = "CONNECTING"
       /\ sockets' = [sockets EXCEPT ![s] = "OPEN"]
       /\ wsOp' = "open"
       /\ UNCHANGED <<ws, reconnectTimer, timers, disconnected>>
  /\ UNCHANGED outVars
  /\ OnlyWs

\* The close event of a socket (closed by the peer, by a failure, or at the
\* end of the closing handshake that close() began): ws.onclose.
SocketClose ==
  /\ \E s \in Live(Channel) :
       /\ Cardinality(timers) < MaxTimers
       /\ SetChannel(onclose(Channel, s))
       /\ wsOp' = IF reconnectTimer = 0 THEN "close_sched" ELSE "close_skip"
       /\ UNCHANGED disconnected
  /\ UNCHANGED outVars
  /\ OnlyWs

\* A pending timeout fires.
TimerFire ==
  /\ \E t \in timers :
       /\ SetChannel(reconnectCallback(Channel, t))
       /\ wsOp' = "reconnect"
       /\ UNCHANGED disconnected
  /\ UNCHANGED outVars
  /\ OnlyWs

\* The application calls wsService.send(data).
Send ==
  /\ sendCount < MaxSends
  /\ \E o \in {send(Channel, [sendCount |-> sendCount,
                               transmitted |-> transmitted,
                               dropped |-> dropped])} :
       /\ sendCount' = o.sendCount
       /\ transmitted' = o.transmitted
       /\ dropped' = o.dropped
  /\ wsOp' = "send"
  /\ UNCHANGED <<sockets, ws, reconnectTimer, timers, disconnected>>
  /\ OnlyWs

WsNext ==
  \/ Connect \/ Disconnect \/ SocketOpen \/ SocketClose \/ TimerFire
  \/ Send

(***************************************************************************)
(*                 LISTENERS OF THE PUSH CHANNEL CLIENT                    *)
(*                                                                         *)
(* listeners[e] is the Set of callbacks registered for event e, in         *)
(* insertion order.  subscribed is the set of pairs <<e, h>> for which     *)
(* on(e, h) was called and off(e, h) not since.  invoked is the sequence   *)
(* of callback invocations made by the last message event.                 *)
(***************************************************************************)
EventTypes == {"message", "progress"}
Handlers == {"h1", "h2"}

\* What a socket receives: JSON with type 'progress', with type 'message',
\* without a type, the JSON text null, and a text that is no JSON.
InboundKinds == {"progress", "message", "untyped", "null", "bad"}

\* data.type of the decoded message
DeclaredType(kind) ==
  IF kind \in {"progress", "message"} THEN kind ELSE Undef

Has(seq, x) == \E i \in 1..Len(seq) : seq[i] = x

\* on(event, callback)
on(l, e, h) == IF Has(l[e], h) THEN l ELSE [l EXCEPT ![e] = Append(@, h)]

\* off(event, callback)
off_Never(l, e, h) == l

off(l, e, h) == [l EXCEPT ![e] = SelectSeq(@, LAMBDA x : x # h)]

\* emit(event, data): the invocations it makes.
emit(l, e) == [i \in 1..Len(l[e]) |-> [handler |-> l[e][i], event |-> e]]

\* ws.onmessage: the invocations it makes for a message of the kind.
onmessage_TypeOnly(l, kind) ==
  IF DeclaredType(kind) # Undef THEN emit(l, DeclaredType(kind)) ELSE <<>>

onmessage(l, kind) ==
  IF kind = "bad" THEN <<>>
  ELSE emit(l, "message")
         \o (IF DeclaredType(kind) # Undef THEN emit(l, DeclaredType(kind))
             ELSE <<>>)

ListenIdle ==
  /\ listeners = [e \in EventTypes |-> <<>>]
  /\ subscribed = {}
  /\ invoked = <<>>

ListenInit == ListenIdle

\* A component calls wsService.on(e, h).
On ==
  /\ \E e \in EventTypes, h \in Handlers :
       /\ listeners' = on(listeners, e, h)
       /\ subscribed' = subscribed \cup {<<e, h>>}
  /\ UNCHANGED <<invoked, streamVars, wsVars, bridgeVars, startVars, pyVars>>

\* A component calls wsService.off(e, h).
Off ==
  /\ \E e \in EventTypes, h \in Handlers :
       /\ listeners' = off(listeners, e, h)
       /\ subscribed' = subscribed \ {<<e, h>>}
  /\ UNCHANGED <<invoked, streamVars, wsVars, bridgeVars, startVars, pyVars>>

\* An open socket receives a message.
MessageEvent(kind) ==
  /\ \E s \in Slots : sockets[s] = "OPEN"
  /\ invoked' = onmessage(listeners, kind)
  /\ UNCHANGED <<listeners, subscribed, streamVars, wsVars, bridgeVars,
                 startVars, pyVars>>

Message == \E kind \in InboundKinds : MessageEvent(kind)

ListenNext == Connect \/ SocketOpen \/ On \/ Off \/ Message

(***************************************************************************)
(*                 TASK STORE AND ORCHESTRATION BRIDGE                     *)
(*                                                                         *)
(* tasks is the store's list.  A field that is undefined holds Undef.      *)
(* summarizing is summarizingTaskIds.current of the mounted ProgressPanel; *)
(* calls are the handleTranscriptReady invocations that are suspended at   *)
(* an await ("fetch": the request, "stream": the read loop, "export": the  *)
(* export call); own tells whether the invocation belongs to the mounted   *)
(* panel instance (its finally block then acts on summarizing).            *)
(* lastOp names the last operation and the task id it concerned, effects   *)
(* the calls that operation made to the notification collaborator          *)
(* (toast.error) and to the export service (apiService.exportMarkdown).    *)
(***************************************************************************)
TaskIds == 1..MaxTasks
NoTaskId == 0
NoProgress == 0 - 1
Tabs == {"input", "queue", "settings"}

\* The messages written by the code, by the place that writes them.
MsgWaiting == "waiting"
MsgEmptyTranscript == "empty transcript"
MsgPrepare == "preparing summary"
MsgFetch == "calling backend"
MsgStreaming == "summary streaming"
MsgExporting == "summary done, exporting"
MsgExport == "exporting markdown"
FailMessage(err) ==
  CASE err = "E" -> "summary failed: E"
    [] err = "X" -> "summary failed: X"

\* STATUS_CONFIG[status].text
StatusText(status) ==
  CASE status = "pending"     -> "text pending"
    [] status = "downloading" -> "text downloading"
    [] status = "processing"  -> "text processing"
    [] status = "completed"   -> "text completed"
    [] status = "failed"      -> "text failed"

\* addTask: the record of a new task.  createdAt, the time of the call, is
\* the number of the call.
NewTask(id, source) ==
  [id |-> id, source |-> source, status |-> "pending", progress |-> 0,
   message |-> MsgWaiting, createdAt |-> id, outputPath |-> Undef,
   error |-> Undef]

\* { ...task, ...updates }
Merge(task, updates) ==
  [f \in DOMAIN task |->
     IF f \in DOMAIN updates THEN updates[f] ELSE task[f]]

\* updateTask(id, updates)
updateTask_Create(ts, id, updates) ==
  IF \E i \in 1..Len(ts) : ts[i].id = id
  THEN [i \in 1..Len(ts) |->
          IF ts[i].id = id THEN Merge(ts[i], updates) ELSE ts[i]]
  ELSE Append(ts, Merge(NewTask(id, ""), updates))

updateTask_All(ts, id, updates) ==
  [i \in 1..Len(ts) |-> Merge(ts[i], updates)]

updateTask(ts, id, updates) ==
  [i \in 1..Len(ts) |-> IF ts[i].id = id THEN Merge(ts[i], updates) ELSE ts[i]]

\* removeTask(id)
removeTask_KeepRunning(ts, id) ==
  SelectSeq(ts, LAMBDA t : t.id # id \/ t.status = "processing")

removeTask(ts, id) == SelectSeq(ts, LAMBDA t : t.id # id)

\* clearCompleted()
clearCompleted(ts) == SelectSeq(ts, LAMBDA t : t.status # "completed")

\* clearAll()
clearAll(ts) == <<>>

HasTask(ts, id) == \E i \in 1..Len(ts) : ts[i].id = id
TaskOf(ts, id) == ts[CHOOSE i \in 1..Len(ts) : ts[i].id = id]

\* Inbound messages.  taskId NoTaskId stands for a message without task id,
\* progress NoProgress and the other fields Undef for an absent field.
UpdateMessages ==
  {m \in [taskId : {NoTaskId} \cup TaskIds,
          status : {Undef, "downloading", "completed", "failed"},
          progress : {NoProgress, 50},
          message : {Undef, "m"},
          outputPath : {Undef, "p"}] :
     /\ m.outputPath # Undef => m.status = "completed"
     /\ m.progress = NoProgress <=> m.message = Undef}

TranscriptMessages ==
  [taskId : {NoTaskId} \cup TaskIds,
   transcript : {<<>>, <<" ">>, <<"t">>}]

\* x || fallback
OrElse(x, absent, fallback) == IF x = absent THEN fallback ELSE x

\* ProgressPanel: handleTaskUpdate
handleTaskUpdate(ts, data) ==
  IF data.taskId = NoTaskId THEN ts
  ELSE updateTask(ts, data.taskId,
         [status |-> OrElse(data.status, Undef, "processing"),
          progress |-> OrElse(data.progress, NoProgress, 0),
          message |-> OrElse(data.message, Undef, ""),
          outputPath |-> data.outputPath,
          error |-> IF data.status = "failed" THEN data.message ELSE Undef])

\* ProgressPanel: handleProgress
handleProgress(ts, data) ==
  IF data.taskId = NoTaskId THEN ts
  ELSE updateTask(ts, data.taskId,
         [status |-> OrElse(data.status, Undef, "processing"),
          progress |-> OrElse(data.progress, NoProgress, 0),
          message |-> OrElse(data.message, Undef, "")])

\* ProcessingQueue: handleProgress (subscribed to progress and task_update)
queueHandleProgress(ts, data) ==
  IF data.taskId = NoTaskId \/ data.status = Undef THEN ts
  ELSE updateTask(ts, data.taskId,
         [status |-> data.status,
          progress |-> OrElse(data.progress, NoProgress, 0),
          message |-> OrElse(data.message, Undef, StatusText(data.status)),
          outputPath |-> data.outputPath,
          error |-> IF data.status = "failed" THEN data.message ELSE Undef])

\* !(data.transcript || '').trim()
IsEmptyTranscript_NoTrim(transcript) == transcript = <<>>

IsEmptyTranscript(transcript) == Trim(transcript) = <<>>

\* handleTranscriptReady up to its first await.  b = [tasks, summarizing];
\* the result also tells what the handler did.
GuardBlocks_Never(guard, id) == FALSE

GuardBlocks(guard, id) == id \in guard

\* const task = tasks.find(...); if (!task) return
TaskFound_Always(ts, id) == TRUE

TaskFound(ts, id) == HasTask(ts, id)

\* task.source of the record found
SourceOf(ts, id) == IF HasTask(ts, id) THEN TaskOf(ts, id).source ELSE Undef

handleTranscriptReady(b, data) ==
  IF data.taskId = NoTaskId \/ GuardBlocks(b.summarizing, data.taskId)
  THEN [tasks |-> b.tasks, summarizing |-> b.summarizing, did |-> "ignored"]
  ELSE IF ~TaskFound(b.tasks, data.taskId)
  THEN [tasks |-> b.tasks, summarizing |-> b.summarizing, did |-> "unknown"]
  ELSE IF IsEmptyTranscript(data.transcript)
  THEN [tasks |-> updateTask(b.tasks, data.taskId,
                    [status |-> "failed", progress |-> 0,
                     message |-> MsgEmptyTranscript,
                     error |-> MsgEmptyTranscript]),
        summarizing |-> b.summarizing, did |-> "empty"]
  ELSE \* guard add, updateTask(62), then streamSummary runs to its fetch:
       \* onProgress(65)
       [tasks |-> updateTask(
                    updateTask(b.tasks, data.taskId,
                      [status |-> "processing", progress |-> 62,
                       message |-> MsgPrepare]),
                    data.taskId,
                    [status |-> "processing", progress |-> 65,
                     message |-> MsgFetch]),
        summarizing |-> b.summarizing \cup {data.taskId}, did |-> "started"]

\* onProgress(70): the response is readable, the read loop starts.
onStreaming(ts, id) ==
  updateTask(ts, id, [status |-> "processing", progress |-> 70,
                      message |-> MsgStreaming])

\* streamSummary returns: onProgress(95), then the update before the export.
onSummary_Completed(ts, id, text) ==
  updateTask(ts, id, [status |-> "completed", progress |-> 100,
                      message |-> MsgExport])

onSummary(ts, id, text) ==
  updateTask(
    updateTask(ts, id, [status |-> "processing", progress |-> 95,
                        message |-> MsgExporting]),
    id, [status |-> "processing", progress |-> 96, message |-> MsgExport])

\* The catch block.
onFailure_NoError(ts, id, err) ==
  updateTask(ts, id, [status |-> "failed", progress |-> 0,
                      message |-> FailMessage(err)])

onFailure(ts, id, err) ==
  updateTask(ts, id, [status |-> "failed", progress |-> 0,
                      message |-> FailMessage(err), error |-> err])

\* The error an invocation is rejected with, by the await it is at.
FailureOf(c) == IF c.pc = "export" THEN "X" ELSE "E"

\* toast.error(...) of the catch block
toastError(id, err) ==
  [call |-> "toast.error", id |-> id, source |-> Undef,
   text |-> FailMessage(err)]

\* The texts streamSummary resolves with.
Summaries == {"S", "T"}

\* apiService.exportMarkdown({task_id, type, source, title, summary}) of
\* the invocation c: type, source and title are those of the record the
\* handler found when it started.
exportMarkdown(c, text) ==
  [call |-> "exportMarkdown", id |-> c.task, source |-> c.source,
   text |-> text]

\* The finally block of an invocation c.
release_Never(guard, c) == guard

release(guard, c) == IF c.own THEN guard \ {c.task} ELSE guard

BridgeIdle ==
  /\ tasks = <<>> /\ nextId = 1 /\ summarizing = {} /\ calls = {}
  /\ activeTab = "input" /\ lastOp = [op |-> "init", id |-> NoTaskId]
  /\ effects = <<>>

BridgeInit == BridgeIdle

\* addTask(task): id is the value of crypto.randomUUID().
addTask_Prepend(ts, id, source) == <<NewTask(id, source)>> \o ts

addTask_SameId(ts, id, source) == Append(ts, NewTask(1, source))

addTask(ts, id, source) == Append(ts, NewTask(id, source))

\* What the user submits: a URL typed into the URLInput ("" for an empty or
\* blank field, "bad" for a text validateUrl rejects, "u" for a URL of a
\* supported site), or a video file given to the DropZone, of which
\* file.path is "" or "f".
TaskInputs ==
  [via : {"url"}, source : {"", "bad", "u"}]
    \cup [via : {"file"}, source : {"", "f"}]

validateUrl(url) == url \in {"", "u"}

\* URLInput.handleSubmit
handleSubmit(ts, id, url) ==
  IF url = "" \/ ~validateUrl(url) THEN ts ELSE addTask(ts, id, url)

\* DropZone.handleDrop / handleFileSelect with one video file
handleDrop(ts, id, path) == addTask(ts, id, path)

\* The user submits input while fewer than limit tasks have been added.
Enqueue(input, limit) ==
  /\ nextId <= limit
  /\ tasks' = IF input.via = "url"
              THEN handleSubmit(tasks, nextId, input.source)
              ELSE handleDrop(tasks, nextId, input.source)
  /\ nextId' = IF tasks' = tasks THEN nextId ELSE nextId + 1
  /\ lastOp' = IF tasks' = tasks THEN [op |-> "rejected", id |-> NoTaskId]
               ELSE [op |-> "user", id |-> nextId]
  /\ UNCHANGED <<summarizing, calls, activeTab>>
  /\ effects' = <<>>
  /\ OnlyBridge

\* The user adds a task (URLInput / DropZone call addTask).
AddTask == \E input \in TaskInputs : Enqueue(input, MaxTasks)

\* The same with room for a second task.
AddQueued == \E input \in TaskInputs : Enqueue(input, MaxQueued)

\* The user removes the task id in the queue tab.
Remove(id) ==
  /\ activeTab = "queue"
  /\ HasTask(tasks, id)
  /\ tasks' = removeTask(tasks, id)
  /\ lastOp' = [op |-> "user", id |-> id]
  /\ UNCHANGED <<nextId, summarizing, calls, activeTab>>
  /\ effects' = <<>>
  /\ OnlyBridge

RemoveTask == \E id \in TaskIds : Remove(id)

\* The user clears the completed tasks, or all tasks, in the queue tab.
ClearCompleted ==
  /\ activeTab = "queue"
  /\ tasks' = clearCompleted(tasks)
  /\ lastOp' = [op |-> "clear", id |-> NoTaskId]
  /\ UNCHANGED <<nextId, summarizing, calls, activeTab>>
  /\ effects' = <<>>
  /\ OnlyBridge

ClearAll ==
  /\ activeTab = "queue"
  /\ tasks # <<>>
  /\ tasks' = clearAll(tasks)
  /\ lastOp' = [op |-> "clear", id |-> NoTaskId]
  /\ UNCHANGED <<nextId, summarizing, calls, activeTab>>
  /\ effects' = <<>>
  /\ OnlyBridge

\* The user switches tab: the ProgressPanel is mounted in the input tab
\* only, the ProcessingQueue in the queue tab only.  A panel mounted anew
\* has an empty guard set; suspended invocations of the old one go on.
\* The model lets a panel be unmounted only when no invocation of an
\* earlier panel is still suspended for a task it is summarizing itself,
\* so at most two invocations per task are suspended at a time.
Switch(tab) ==
  /\ tab # activeTab
  /\ activeTab' = tab
  /\ IF activeTab = "input"
     THEN /\ \A c, d \in calls : c.task = d.task => c.own = d.own
          /\ summarizing' = {}
          /\ calls' = {[c EXCEPT !.own = FALSE] : c \in calls}
     ELSE UNCHANGED <<summarizing, calls>>
  /\ lastOp' = [op |-> "user", id |-> NoTaskId]
  /\ UNCHANGED <<tasks, nextId>>
  /\ effects' = <<>>
  /\ OnlyBridge

SwitchTab == \E tab \in Tabs : Switch(tab)

\* A progress message arrives.
ProgressEvent(data) ==
  /\ tasks' = CASE activeTab = "input" -> handleProgress(tasks, data)
                [] activeTab = "queue" -> queueHandleProgress(tasks, data)
                [] OTHER -> tasks
  /\ lastOp' = [op |-> "update", id |-> data.taskId]
  /\ UNCHANGED <<nextId, summarizing, calls, activeTab>>
  /\ effects' = <<>>
  /\ OnlyBridge

DeliverProgress == \E data \in UpdateMessages : ProgressEvent(data)

\* A task_update message arrives.
TaskUpdateEvent(data) ==
  /\ tasks' = CASE activeTab = "input" -> handleTaskUpdate(tasks, data)
                [] activeTab = "queue" -> queueHandleProgress(tasks, data)
                [] OTHER -> tasks
  /\ lastOp' = [op |-> "update", id |-> data.taskId]
  /\ UNCHANGED <<nextId, summarizing, calls, activeTab>>
  /\ effects' = <<>>
  /\ OnlyBridge

DeliverTaskUpdate == \E data \in UpdateMessages : TaskUpdateEvent(data)

\* A transcript_ready message arrives; only the ProgressPanel listens.
TranscriptReady(data) ==
  /\ activeTab = "input"
  /\ LET r == handleTranscriptReady(
                [tasks |-> tasks, summarizing |-> summarizing], data)
     IN /\ tasks' = r.tasks
        /\ summarizing' = r.summarizing
        /\ calls' = IF r.did = "started"
                    THEN calls \cup {[task |-> data.taskId,
                                      source |-> SourceOf(tasks, data.taskId),
                                      pc |-> "fetch", own |-> TRUE]}
                    ELSE calls
        /\ lastOp' = [op |-> r.did, id |-> data.taskId]
  /\ UNCHANGED <<nextId, activeTab>>
  /\ effects' = <<>>
  /\ OnlyBridge

DeliverTranscriptReady == \E data \in TranscriptMessages : TranscriptReady(data)

\* The fetch of an invocation answers with a readable stream.
FetchOk ==
  /\ \E c \in calls :
       /\ c.pc = "fetch"
       /\ tasks' = onStreaming(tasks, c.task)
       /\ calls' = (calls \ {c}) \cup {[c EXCEPT !.pc = "stream"]}
       /\ lastOp' = [op |-> "call", id |-> c.task]
       /\ UNCHANGED <<nextId, summarizing, activeTab>>
  /\ effects' = <<>>
  /\ OnlyBridge

\* streamSummary resolves with the summary text: onProgress(95), the
\* update before the export, then the export call is made and awaited.
Resolves(c, text) ==
  /\ c \in calls
  /\ c.pc = "stream"
  /\ tasks' = onSummary(tasks, c.task, text)
  /\ calls' = (calls \ {c}) \cup {[c EXCEPT !.pc = "export"]}
  /\ lastOp' = [op |-> "call", id |-> c.task]
  /\ effects' = <<exportMarkdown(c, text)>>
  /\ UNCHANGED <<nextId, summarizing, activeTab>>
  /\ OnlyBridge

SummaryDone == \E c \in calls, text \in Summaries : Resolves(c, text)

\* The export call resolves: the try block ends, then the finally block.
ExportDone ==
  /\ \E c \in calls :
       /\ c.pc = "export"
       /\ calls' = calls \ {c}
       /\ summarizing' = release(summarizing, c)
       /\ lastOp' = [op |-> "call", id |-> c.task]
       /\ UNCHANGED <<tasks, nextId, activeTab>>
  /\ effects' = <<>>
  /\ OnlyBridge

\* The awaited call of the invocation c rejects (request failed, no
\* readable stream, error frame, empty response, export rejected): the
\* catch block, then the finally block.
Fails(c) ==
  /\ c \in calls
  /\ tasks' = onFailure(tasks, c.task, FailureOf(c))
  /\ calls' = calls \ {c}
  /\ summarizing' = release(summarizing, c)
  /\ lastOp' = [op |-> "failed", id |-> c.task]
  /\ effects' = <<toastError(c.task, FailureOf(c))>>
  /\ UNCHANGED <<nextId, activeTab>>
  /\ OnlyBridge

CallFails == \E c \in calls : Fails(c)

BridgeNext ==
  \/ AddTask \/ RemoveTask \/ SwitchTab
  \/ DeliverProgress \/ DeliverTaskUpdate \/ DeliverTranscriptReady
  \/ FetchOk \/ SummaryDone \/ ExportDone \/ CallFails

(***************************************************************************)
(*                 THE BRIDGE WITH SEVERAL TASKS                           *)
(*                                                                         *)
(* The same store and handlers with up to MaxQueued tasks, fewer kinds of  *)
(* input and of inbound message.                                           *)
(***************************************************************************)
QueueIds == 1..MaxQueued

QueueInputs == {[via |-> "url", source |-> "u"]}

QueueUpdates ==
  [taskId : QueueIds, status : {"downloading", "completed", "failed"},
   progress : {50}, message : {"m"}, outputPath : {Undef}]

QueueTranscripts == [taskId : QueueIds, transcript : {<<>>, <<"t">>}]

QueueAdd == \E input \in QueueInputs : Enqueue(input, MaxQueued)

QueueRemove == \E id \in QueueIds : Remove(id)

QueueSwitch == \E tab \in {"input", "queue"} : Switch(tab)

QueueTaskUpdate == \E data \in QueueUpdates : TaskUpdateEvent(data)

QueueTranscriptReady == \E data \in QueueTranscripts : TranscriptReady(data)

QueueNext ==
  \/ QueueAdd \/ QueueRemove \/ ClearCompleted \/ ClearAll \/ QueueSwitch
  \/ QueueTaskUpdate \/ QueueTranscriptReady
  \/ FetchOk \/ SummaryDone \/ ExportDone \/ CallFails

(***************************************************************************)
(*                 SETTINGS AND THE START BUTTON                           *)
(*                                                                         *)
(* settings holds the templates and the selected template id of the        *)
(* settings store.  sendCalls is the sequence of messages the ProgressPanel*)
(* has passed to wsService.send, warnings the number of toast.warning      *)
(* calls it has made.  A message is the list of task ids with the prompt.  *)
(***************************************************************************)
Template(id) == [id |-> id, prompt |-> "prompt of " \o id]

\* defaultSettings (two of the default templates)
DefaultSettings ==
  [templates |-> <<Template("study"), Template("summary")>>,
   selectedTemplateId |-> "study"]

CustomId == "custom"

\* The value of an optional chain on undefined.
NoTemplate == [id |-> "", prompt |-> ""]

TemplateIds(s) == {s.templates[i].id : i \in 1..Len(s.templates)}

\* settings.templates.find(t => t.id === settings.selectedTemplateId)
FindSelected(s) ==
  IF s.selectedTemplateId \in TemplateIds(s)
  THEN s.templates[CHOOSE i \in 1..Len(s.templates) :
                     s.templates[i].id = s.selectedTemplateId]
  ELSE NoTemplate

\* find(...) || settings.templates[0]
SelectedTemplate_NoFallback(s) == FindSelected(s)

SelectedTemplate(s) ==
  IF FindSelected(s) # NoTemplate THEN FindSelected(s)
  ELSE IF s.templates # <<>> THEN s.templates[1]
  ELSE NoTemplate

\* tasks.filter(t => t.status === 'pending')
pendingTasks_All(ts) == ts

pendingTasks(ts) == SelectSeq(ts, LAMBDA t : t.status = "pending")

\* ['downloading', 'processing'].includes(t.status)
processingTasks(ts) ==
  SelectSeq(ts, LAMBDA t : t.status \in {"downloading", "processing"})

\* handleStartProcessing; st = [sendCalls, warnings]
handleStartProcessing(ts, s, st) ==
  IF pendingTasks(ts) = <<>>
  THEN [st EXCEPT !.warnings = @ + 1]
  ELSE IF SelectedTemplate(s).prompt = ""
  THEN [st EXCEPT !.warnings = @ + 1]
  ELSE [st EXCEPT !.sendCalls =
          Append(@, [ids |-> [i \in 1..Len(pendingTasks(ts)) |->
                                pendingTasks(ts)[i].id],
                     prompt |-> SelectedTemplate(s).prompt])]

StartIdle ==
  /\ settings = DefaultSettings /\ sendCalls = <<>> /\ warnings = 0

StartInit == StartIdle

\* The user presses the start button, which is rendered while some task is
\* pending and none is downloading or processing.
StartProcessing ==
  /\ activeTab = "input"
  /\ pendingTasks(tasks) # <<>>
  /\ processingTasks(tasks) = <<>>
  /\ Len(sendCalls) + warnings < MaxStarts
  /\ \E st \in {handleStartProcessing(tasks, settings,
                  [sendCalls |-> sendCalls, warnings |-> warnings])} :
       /\ sendCalls' = st.sendCalls
       /\ warnings' = st.warnings
  /\ UNCHANGED <<settings, streamVars, wsVars, bridgeVars, listenVars,
                 pyVars>>

\* The user deletes a template: TemplateSelector.handleDeleteTemplate.
DeleteTemplate ==
  /\ \E id \in TemplateIds(settings) :
       settings' = [settings EXCEPT !.templates =
                      SelectSeq(@, LAMBDA t : t.id # id)]
  /\ UNCHANGED <<sendCalls, warnings, streamVars, wsVars, bridgeVars,
                 listenVars, pyVars>>

\* The user saves a new template: CustomPromptEditor.handleSave, addTemplate.
AddTemplate ==
  /\ Len(settings.templates) < MaxTemplates
  /\ CustomId \notin TemplateIds(settings)
  /\ settings' = [settings EXCEPT !.templates = Append(@, Template(CustomId))]
  /\ UNCHANGED <<sendCalls, warnings, streamVars, wsVars, bridgeVars,
                 listenVars, pyVars>>

StartNext ==
  \/ AddQueued \/ DeliverProgress \/ DeliverTaskUpdate
  \/ StartProcessing \/ DeleteTemplate \/ AddTemplate

(***************************************************************************)
(*                 BACKEND PROCESS MANAGER                                 *)
(*                                                                         *)
(* procs[p] is the state of the p-th child process spawned by the manager: *)
(* not yet spawned, alive, alive with the signal of kill() sent to it, or  *)
(* exited (its close event was delivered).  process is the field of the    *)
(* PythonManager: the number of a child process, or NoProcess for null.    *)
(* pyOp names the last operation.                                          *)
(***************************************************************************)
Pids == 1..MaxProcs
NoProcess == 0

Manager == [procs |-> procs, process |-> process]

Spawned(m) == {p \in Pids : m.procs[p] # "unborn"}

\* The child process spawned last; NoProcess when none was.
Latest(m) ==
  IF Spawned(m) = {} THEN NoProcess
  ELSE CHOOSE p \in Spawned(m) : \A q \in Spawned(m) : q <= p

\* start() up to its await: spawn unless this.process is set.
start(m) ==
  IF m.process # NoProcess THEN m
  ELSE LET p == Latest(m) + 1 IN
       [m EXCEPT !.procs[p] = "alive", !.process = p]

\* stop(): kill() sends the signal; the process exits later.
stop(m) ==
  IF m.process # NoProcess
  THEN [m EXCEPT !.procs[m.process] = "killed", !.process = NoProcess]
  ELSE m

\* The close handler start() attached to the child process p.
onProcessClose(m, p) ==
  [m EXCEPT !.procs[p] = "exited", !.process = NoProcess]

\* isRunning()
isRunning(m) == m.process # NoProcess

SetManager(m) == procs' = m.procs /\ process' = m.process

PyIdle ==
  /\ procs = [p \in Pids |-> "unborn"]
  /\ process = NoProcess
  /\ pyOp = [op |-> "init", pid |-> NoProcess]

OnlyPy == UNCHANGED <<streamVars, wsVars, bridgeVars, startVars, listenVars>>

\* The main process calls pythonManager.start().
PyStart ==
  /\ process # NoProcess \/ Latest(Manager) < MaxProcs
  /\ SetManager(start(Manager))
  /\ pyOp' = [op |-> IF start(Manager) = Manager THEN "start_noop"
                     ELSE "start",
              pid |-> start(Manager).process]
  /\ OnlyPy

\* The main process calls pythonManager.stop().
PyStop ==
  /\ SetManager(stop(Manager))
  /\ pyOp' = [op |-> "stop", pid |-> process]
  /\ OnlyPy

\* The child process p exits, by itself or after kill(): its close event.
ProcessClose(p) ==
  /\ procs[p] \in {"alive", "killed"}
  /\ SetManager(onProcessClose(Manager, p))
  /\ pyOp' = [op |-> "close", pid |-> p]
  /\ OnlyPy

PyClose == \E p \in Pids : ProcessClose(p)

PyNext == PyStart \/ PyStop \/ PyClose

(***************************************************************************)
(*                          SPECIFICATIONS                                 *)
(***************************************************************************)
\* Each specification starts one component and leaves the other two idle.
StreamStart == StreamInit /\ WsIdle /\ BridgeIdle /\ StartIdle /\ ListenIdle /\ PyIdle
WsStart == WsInit /\ StreamIdle /\ BridgeIdle /\ StartIdle /\ ListenIdle /\ PyIdle
Init == BridgeInit /\ StreamIdle /\ WsIdle /\ StartIdle /\ ListenIdle /\ PyIdle
StartStart == StartInit /\ BridgeInit /\ StreamIdle /\ WsIdle /\ ListenIdle /\ PyIdle
ListenStart == ListenInit /\ WsInit /\ StreamIdle /\ BridgeIdle /\ StartIdle /\ PyIdle
QueueStart == BridgeInit /\ StreamIdle /\ WsIdle /\ StartIdle /\ ListenIdle /\ PyIdle
ManagerStart ==
  PyIdle /\ StreamIdle /\ WsIdle /\ BridgeIdle /\ StartIdle /\ ListenIdle

StreamSpec == StreamStart /\ [][StreamNext]_vars

WsSpec == WsStart /\ [][WsNext]_vars

FairWsSpec == WsStart /\ [][WsNext]_vars /\ WF_vars(TimerFire)

Next == BridgeNext

Spec == Init /\ [][Next]_vars

ListenSpec == ListenStart /\ [][ListenNext]_vars

QueueSpec == QueueStart /\ [][QueueNext]_vars

PySpec == ManagerStart /\ [][PyNext]_vars

StartSpec == StartStart /\ [][StartNext]_vars


(***************************************************************************)
(*                     CLAIMS ON THE STORE AND THE BRIDGE                  *)
(***************************************************************************)
IsSet(x) == x # Undef /\ x # ""

\* C1: in every reachable state, every task of the store has status
\* completed if and only if its outputPath is set.
C1_CompletedIffOutputPath ==
  \A i \in 1..Len(tasks) :
    (tasks[i].status = "completed") <=> IsSet(tasks[i].outputPath)

\* C2: in every reachable state, every task of the store has status failed
\* if and only if its error field is set (non-empty).
C2_FailedIffError ==
  \A i \in 1..Len(tasks) :
    (tasks[i].status = "failed") <=> IsSet(tasks[i].error)

\* C3: no task ever has both outputPath and error populated.
C3_OutputPathErrorExclusive ==
  \A i \in 1..Len(tasks) :
    ~(IsSet(tasks[i].outputPath) /\ IsSet(tasks[i].error))

\* The outcomes handleTranscriptReady reports in lastOp.
TranscriptOps == {"ignored", "unknown", "empty", "started"}

\* C4: a transcript_ready message for a task that is in the guard set is
\* ignored: the store, the guard set and the suspended invocations are as
\* before, so no second streamSummary call starts.
C4_GuardedRedeliveryIgnored ==
  [][(lastOp'.op \in TranscriptOps /\ lastOp'.id \in summarizing)
       => /\ lastOp'.op = "ignored"
          /\ tasks' = tasks
          /\ summarizing' = summarizing
          /\ calls' = calls]_vars

C4_Witness ==
  /\ lastOp.op = "ignored"
  /\ lastOp.id \in summarizing
  /\ \E c \in calls : c.task = lastOp.id /\ c.own /\ c.pc = "stream"


\* What C12 requires of a step that delivers data.
FailsAsEmpty(data) ==
  /\ TaskOf(tasks', data.taskId).status = "failed"
  /\ IsSet(TaskOf(tasks', data.taskId).error)
  /\ calls' = calls
  /\ summarizing' = summarizing

\* C12 as stated: a transcript_ready event with an empty transcript for a
\* task of the store sets the task to failed with a non-empty error, starts
\* no summarization call and adds nothing to the guard set.
C12_EmptyTranscriptFails ==
  [][\A data \in TranscriptMessages :
       (TranscriptReady(data) /\ HasTask(tasks, data.taskId)
          /\ Trim(data.transcript) = <<>>)
       => FailsAsEmpty(data)]_vars

\* C12 as amended: the same, for a task that is not in the guard set when
\* the event arrives (an event for a task in the guard set is ignored).
C12_EmptyTranscriptFailsUnguarded ==
  [][\A data \in TranscriptMessages :
       (TranscriptReady(data) /\ HasTask(tasks, data.taskId)
          /\ Trim(data.transcript) = <<>>
          /\ data.taskId \notin summarizing)
       => FailsAsEmpty(data)]_vars

C12_Witness ==
  /\ lastOp.op = "empty"
  /\ TaskOf(tasks, lastOp.id).status = "failed"
  /\ TaskOf(tasks, lastOp.id).error = MsgEmptyTranscript
  /\ lastOp.id \notin summarizing

\* The operations that apply a channel event or a callback of a
\* summarization to the store.
EventOps == {"update", "call", "failed"} \cup TranscriptOps

InFlight(t) == {c \in calls : c.own /\ c.task = t}

\* C14: a task is in the guard set only while one invocation of
\* handleTranscriptReady for it is suspended at its summarization or export
\* call; once the invocation has ended, by success or by failure of either
\* call, the task is not in the guard set.
C14_GuardHeldOnlyInFlight ==
  \A t \in summarizing : Cardinality(InFlight(t)) = 1

C14_Witness ==
  /\ lastOp.op = "failed"
  /\ HasTask(tasks, lastOp.id)
  /\ TaskOf(tasks, lastOp.id).error = "X"
  /\ activeTab = "input"
  /\ calls = {}
  /\ summarizing = {}

\* The statuses of a task that is being processed.
ActiveStatuses == {"downloading", "processing"}

\* Task i is in a processing attempt before the step and the step neither
\* removes it nor fails it.
StaysInAttempt(i) ==
  /\ i <= Len(tasks')
  /\ tasks'[i].id = tasks[i].id
  /\ tasks[i].status \in ActiveStatuses
  /\ tasks'[i].status \in ActiveStatuses \cup {"completed"}

\* C15: while a task is being processed, no channel event and no callback
\* of its summarization lowers its progress.
C15_ProgressNeverDecreases ==
  [][\A i \in 1..Len(tasks) :
       (lastOp'.op \in EventOps /\ StaysInAttempt(i))
       => tasks'[i].progress >= tasks[i].progress]_vars

TerminalStatuses == {"completed", "failed"}

\* C16: once the status of a task is completed or failed, no channel event
\* and no callback of a summarization in flight changes it.
C16_TerminalStatusStable ==
  [][\A i \in 1..Len(tasks) :
       (/\ lastOp'.op \in EventOps
        /\ i <= Len(tasks')
        /\ tasks'[i].id = tasks[i].id
        /\ tasks[i].status \in TerminalStatuses)
       => tasks'[i].status = tasks[i].status]_vars

\* The fields that are absent from the event data keep their values from
\* old to new; progress, message and the output location are looked at only
\* when the status stays, so that no status transition is involved.
AbsentFieldsKept(data, old, new) ==
  /\ data.status = Undef => new.status = old.status
  /\ new.status = old.status =>
       /\ data.progress = NoProgress => new.progress = old.progress
       /\ data.message = Undef => new.message = old.message
       /\ data.outputPath = Undef => new.outputPath = old.outputPath

\* C20: a progress or task_update event is merged into its task partially:
\* a field the event does not carry keeps the value the task had.
C20_EventIsPartialMerge ==
  [][\A data \in UpdateMessages :
       ((ProgressEvent(data) \/ TaskUpdateEvent(data))
          /\ HasTask(tasks, data.taskId))
       => AbsentFieldsKept(data, TaskOf(tasks, data.taskId),
                           TaskOf(tasks', data.taskId))]_vars

\* An input that is not well formed: an empty source, or a text that is
\* no URL of a supported site.
Malformed(input) == input.source \in {"", "bad"}

\* C23: adding a task with malformed input, such as an empty source, adds
\* no record to the store, and adding one with well-formed input appends
\* one pending record.
C23_MalformedInputAddsNothing ==
  [][\A input \in TaskInputs :
       Enqueue(input, MaxTasks)
       => IF Malformed(input) THEN tasks' = tasks
          ELSE /\ Len(tasks') = Len(tasks) + 1
               /\ tasks'[Len(tasks')].status = "pending"]_vars

\* C24: when the request, the stream or the export of an invocation for the
\* task t fails, t becomes failed with the failure message as its error,
\* toast.error is called once and nothing else, and the other suspended
\* invocations go on.
C24_FailureFailsTaskAndNotifies ==
  [][\A c \in calls :
       (Fails(c) /\ HasTask(tasks, c.task))
       => /\ TaskOf(tasks', c.task).status = "failed"
          /\ TaskOf(tasks', c.task).error = FailureOf(c)
          /\ effects' = <<toastError(c.task, FailureOf(c))>>
          /\ calls' = calls \ {c}]_vars

C24_Witness ==
  /\ lastOp = [op |-> "failed", id |-> 1]
  /\ Len(tasks) = 1 /\ tasks[1].status = "failed" /\ tasks[1].error = "X"
  /\ effects = <<toastError(1, "X")>>

\* The task id was added and is no longer in the store.
Removed(id) == id < nextId /\ ~HasTask(tasks, id)

C28_NoTerminalFromPending ==
  [][\A i \in 1..Len(tasks) :
       (/\ i <= Len(tasks')
        /\ tasks'[i].id = tasks[i].id
        /\ tasks[i].status = "pending"
        /\ tasks'[i].status \in TerminalStatuses)
       => lastOp'.op = "empty"]_vars

\* The step makes a call to the export service.
Exports == \E i \in 1..Len(effects') : effects'[i].call = "exportMarkdown"

\* C29: when streamSummary resolves for an invocation of task t, the step
\* sets t (if it is still in the store) to processing with progress 96 and
\* makes one export call, with the resolved text and the id and source of
\* t; a step makes an export call only for an invocation that was in its
\* read loop; and only the delivery of an event makes a task completed.
C29_ExportOnceAfterSummary ==
  [][/\ \A c \in calls, text \in Summaries :
          Resolves(c, text)
          => /\ effects' = <<[call |-> "exportMarkdown", id |-> c.task,
                              source |-> c.source, text |-> text]>>
             /\ HasTask(tasks, c.task)
                  => /\ TaskOf(tasks', c.task).status = "processing"
                     /\ TaskOf(tasks', c.task).progress = 96
                     /\ TaskOf(tasks', c.task).source = c.source
     /\ Exports => \E c \in calls :
                     /\ c.pc = "stream"
                     /\ [c EXCEPT !.pc = "export"] \in calls'
                     /\ effects'[1].id = c.task
                     /\ Len(effects') = 1
     /\ \A i \in 1..Len(tasks) :
          (/\ i <= Len(tasks')
           /\ tasks'[i].id = tasks[i].id
           /\ tasks[i].status # "completed"
           /\ tasks'[i].status = "completed")
          => lastOp'.op = "update"]_vars

C29_Witness ==
  /\ lastOp = [op |-> "call", id |-> 1]
  /\ effects = <<[call |-> "exportMarkdown", id |-> 1, source |-> "f",
                  text |-> "T"]>>
  /\ Len(tasks) = 1 /\ tasks[1].source = "f"
  /\ tasks[1].status = "processing" /\ tasks[1].progress = 96

\* The records of the tasks other than id, in their order.
Others(ts, id) == SelectSeq(ts, LAMBDA t : t.id # id)

\* C30 as stated: every step that changes the store concerns one id only:
\* there is a task such that the records of all others are as before.
C30_EveryMutationOneId ==
  [][\E id \in QueueIds : Others(tasks', id) = Others(tasks, id)]_vars

\* C30 as amended: a step that concerns the task t (an update by an event
\* or by an invocation for t, the removal of t, the failure of t for an
\* empty transcript or in its summarization, the adding of t) leaves the
\* record of every other task as it is; only the two clearing operations
\* of the queue panel act on several tasks at once.
C30_OtherTasksUntouched ==
  [][lastOp'.op # "clear"
       => Others(tasks', lastOp'.id) = Others(tasks, lastOp'.id)]_vars

C30_Witness ==
  /\ Len(tasks) = 2
  /\ lastOp = [op |-> "failed", id |-> 1]
  /\ tasks[1].status = "failed" /\ tasks[1].error = "E"
  /\ tasks[2].status = "downloading" /\ tasks[2].progress = 50

\* C31: a transcript_ready event for a task id that is not in the store is
\* ignored: no invocation is started, no call is made, and the store and
\* the guard set stay as they are.
C31_UnknownTranscriptIgnored ==
  [][\A data \in TranscriptMessages :
       (TranscriptReady(data) /\ ~HasTask(tasks, data.taskId))
       => /\ tasks' = tasks
          /\ summarizing' = summarizing
          /\ calls' = calls
          /\ effects' = <<>>]_vars

\* The task was removed, and then its transcript arrived.
C31_Witness ==
  /\ tasks = <<>> /\ nextId = 2
  /\ lastOp = [op |-> "unknown", id |-> 1]
  /\ summarizing = {} /\ calls = {}

\* The ids of the records of ts.
IdsOf(ts) == {ts[i].id : i \in 1..Len(ts)}

\* C32: a record that is added is pending with progress 0 under an id that
\* no record of the store has; the ids of the records in the store are
\* pairwise distinct; and no step changes the id, source or createdAt of a
\* record that stays in the store.
C32_IdsDistinctAndStable ==
  [][/\ Len(tasks') > Len(tasks)
          => /\ Len(tasks') = Len(tasks) + 1
             /\ tasks'[Len(tasks')].status = "pending"
             /\ tasks'[Len(tasks')].progress = 0
             /\ tasks'[Len(tasks')].id \notin IdsOf(tasks)
     /\ \A i, j \in 1..Len(tasks') :
          i # j => tasks'[i].id # tasks'[j].id
     /\ \A i \in 1..Len(tasks) : \A j \in 1..Len(tasks') :
          tasks'[j].id = tasks[i].id
          => /\ tasks'[j].source = tasks[i].source
             /\ tasks'[j].createdAt = tasks[i].createdAt]_vars

C32_Witness ==
  /\ Len(tasks) = 2
  /\ tasks[1].id = 1 /\ tasks[2].id = 2
  /\ tasks[1].status = "failed"
  /\ tasks[2].status = "completed" /\ tasks[2].createdAt = 2
  /\ lastOp = [op |-> "update", id |-> 2]

\* The records of ts are in the order in which they were added.
InsertionOrder(ts) ==
  \A i, j \in 1..Len(ts) : i < j => ts[i].createdAt < ts[j].createdAt

Summarizing(t) == {c \in calls : c.task = t /\ c.pc \in {"fetch", "stream"}}

\* C38: at most one streamSummary call is in flight per task, also across
\* an unmount and a new mount of the progress panel.
C38_OneSummarizationPerTask ==
  \A t \in TaskIds : Cardinality(Summarizing(t)) <= 1

(***************************************************************************)
(*                     CLAIMS ON THE PUSH CHANNEL CLIENT                   *)
(***************************************************************************)
CloseOps == {"close_sched", "close_skip"}

\* C5: from disconnect() until the next connect() call of the application
\* no reconnection timer is pending and no reconnection attempt is made,
\* also when the close event of the closed socket arrives afterwards.
C5_DisconnectCancelsReconnect ==
  disconnected => (timers = {} /\ reconnectTimer = 0 /\ wsOp # "reconnect")

\* C6: at most one reconnection timer is pending at any time.
C6_AtMostOneTimer == Cardinality(timers) <= 1

C6_Witness == wsOp = "close_skip" /\ Cardinality(timers) = 1

\* C7: every close event leaves exactly one reconnection timer pending, and
\* unless disconnect() cancels it the timer fires and makes its one connect
\* call; the same holds again for the socket of that attempt.
C7_ReconnectAfterClose ==
  /\ [](wsOp \in CloseOps => Cardinality(timers) = 1)
  /\ (wsOp \in CloseOps) ~> (wsOp \in {"reconnect", "disconnect"})

C7_Witness ==
  /\ wsOp = "reconnect"
  /\ ~disconnected
  /\ ws \in Slots
  /\ sockets[ws] = "CONNECTING"

\* C17: a send call made while the socket of the client is not open hands
\* nothing to a socket and warns, and the message it carried is never
\* transmitted afterwards, whatever connections are made later.
C17_SendWhileNotConnectedDrops ==
  /\ [][(sendCount' = sendCount + 1 /\ ReadyState(Channel) # "OPEN")
          => /\ transmitted' = transmitted
             /\ dropped' = dropped \cup {sendCount'}]_vars
  /\ [](dropped \cap transmitted = {})

C17_Witness ==
  /\ 1 \in dropped
  /\ 2 \in transmitted
  /\ ReadyState(Channel) = "OPEN"

ConnectOps == {"connect", "connect_noop"}

\* C18: connect() called while the socket of the client is open does
\* nothing: no socket is created, the field ws (and with it the handlers,
\* which belong to the socket) stays, and no timer is set or cleared.
C18_ConnectWhileOpenIsNoOp ==
  [][(wsOp' \in ConnectOps /\ ReadyState(Channel) = "OPEN")
       => /\ sockets' = sockets
          /\ ws' = ws
          /\ timers' = timers
          /\ reconnectTimer' = reconnectTimer]_vars

C18_Witness ==
  /\ wsOp = "connect_noop"
  /\ ReadyState(Channel) = "OPEN"
  /\ Cardinality(Live(Channel)) = 1

\* The invocations in invoked' are those of the handlers h with <<e, h>>
\* in subs, for the events of es.
InvokedExactly(es, subs) ==
  /\ \A e \in es : \A h \in Handlers :
       <<e, h>> \in subs =>
         \E i \in 1..Len(invoked') :
           invoked'[i] = [handler |-> h, event |-> e]
  /\ \A i \in 1..Len(invoked') :
       /\ invoked'[i].event \in es
       /\ <<invoked'[i].event, invoked'[i].handler>> \in subs

\* C22: a message that was decoded is given to every handler subscribed to
\* 'message' and to every handler subscribed to its declared type, and to
\* no handler that is not subscribed: one that was removed by off() gets
\* nothing for that type.
C22_MessageReachesSubscribers ==
  [][\A kind \in InboundKinds \ {"bad"} :
       MessageEvent(kind)
       => InvokedExactly({"message"} \cup ({DeclaredType(kind)} \ {Undef}),
                         subscribed)]_vars

C22_Witness ==
  /\ subscribed = {<<"message", "h1">>, <<"progress", "h2">>}
  /\ listeners["progress"] = <<"h2">>
  /\ invoked = <<[handler |-> "h1", event |-> "message"],
                 [handler |-> "h2", event |-> "progress"]>>

\* The sockets created by connect() that are connecting or open; each has
\* the handlers connect() attached to it.
Dispatching == {s \in Slots : sockets[s] \in {"CONNECTING", "OPEN"}}

\* C37: at most one socket created by the client is connecting or open
\* with its handlers attached.
C37_AtMostOneLiveSocket == Cardinality(Dispatching) <= 1

(***************************************************************************)
(*                     CLAIMS ON THE STREAM REASSEMBLER                    *)
(***************************************************************************)
\* streamSummary has left its read loop (by return, by throw or at the end
\* of the stream).
ReadFinished ==
  \/ spc = "resolved"
  \/ spc = "rejected" /\ failure \notin {"RequestFailed", "NoReadableStream"}

\* The outcome of streamSummary when the whole of a stream arrives in one
\* read and the next read reports the end.
OneRead(bytes) ==
  LET d == Utf8Decode(<<>>, bytes, <<>>)
      r == FrameLoop(d.text, [summary |-> <<>>, chunks |-> <<>>,
                              progress |-> <<65, 70>>, status |-> "run",
                              error |-> Undef])
  IN IF r.st.status = "run" THEN EndOfStream(r.st) ELSE r.st

SameOutcome(o) ==
  /\ chunks = o.chunks
  /\ progressLog = o.progress
  /\ (spc = "resolved") <=> (o.status = "return")
  /\ spc = "resolved" => result = o.summary
  /\ spc = "rejected" => failure = o.error

\* C8: however the bytes of the stream are cut into reads, streamSummary
\* makes the onChunk calls and has the outcome of the run in which all
\* frames arrive in one read; a done frame cut over several reads is seen
\* once (one onProgress(95)) and ends the call.
C8_ReadPartitionIrrelevant ==
  ReadFinished => SameOutcome(OneRead(WireOf(frames, lastTerminated)))

C8_Witness ==
  /\ spc = "resolved"
  /\ frames = <<"done">>
  /\ nreads = 3
  /\ progressLog = <<65, 70, 95>>

\* The frames that cannot be decoded: a payload that is no JSON text, and a
\* line without the prefix.
Undecodable == {"bad", "comment"}

WithoutUndecodable == SelectSeq(frames, LAMBDA k : k \notin Undecodable)

\* C9: a frame that cannot be decoded is skipped: the onChunk calls and the
\* outcome are those of the same stream without the undecodable frames, so
\* every later chunk frame is still appended and reported.
C9_UndecodableFrameSkipped ==
  (ReadFinished /\ \E i \in 1..Len(frames) : frames[i] \in Undecodable)
    => SameOutcome(OneRead(WireOf(WithoutUndecodable,
                     IF frames[Len(frames)] \in Undecodable THEN TRUE
                     ELSE lastTerminated)))

C9_Witness ==
  /\ spc = "resolved"
  /\ frames = <<"chunkA", "bad", "chunkE9">>
  /\ chunks = << <<"A">>, <<"U+00E9">> >>
  /\ result = <<"A", "U+00E9">>

\* The text a chunk frame carries.
TextOf(k) ==
  CASE k = "chunkA"     -> <<"A">>
    [] k = "chunkE9"    -> <<"U+00E9">>
    [] k = "chunkEmpty" -> <<>>
    [] k = "chunkSpace" -> <<" ">>

ChunkKinds == {"chunkA", "chunkE9", "chunkEmpty", "chunkSpace"}
ErrorKinds == {"error", "errorEmpty"}
EndingKinds == {"done", "null"} \cup ErrorKinds

\* The frames the read loop gets to: those followed by a separator, up to
\* the first that ends the call.
RECURSIVE Processed(_, _)
Processed(fs, lastTerm) ==
  IF fs = <<>> \/ (Len(fs) = 1 /\ ~lastTerm) THEN <<>>
  ELSE IF Head(fs) \in EndingKinds THEN <<Head(fs)>>
  ELSE <<Head(fs)>> \o Processed(Tail(fs), lastTerm)

RECURSIVE Flatten(_)
Flatten(ss) == IF ss = <<>> THEN <<>> ELSE Head(ss) \o Flatten(Tail(ss))

ChunkFrames == SelectSeq(Processed(frames, lastTerminated),
                         LAMBDA k : k \in ChunkKinds)

NonEmptyChunkFrames == SelectSeq(ChunkFrames, LAMBDA k : TextOf(k) # <<>>)

\* C10 as stated: one onChunk call per chunk frame decoded, in arrival
\* order, and the resolved value is the concatenation of the texts passed.
C10_OnChunkPerChunkFrame ==
  ReadFinished =>
    /\ chunks = [i \in 1..Len(ChunkFrames) |-> TextOf(ChunkFrames[i])]
    /\ spc = "resolved" => result = Flatten(chunks)

\* C10 as amended: one onChunk call per decoded chunk frame whose text is
\* not empty, in arrival order, and the resolved value is the concatenation
\* of the texts passed.
C10_OnChunkPerNonEmptyChunk ==
  ReadFinished =>
    /\ chunks = [i \in 1..Len(NonEmptyChunkFrames) |->
                   TextOf(NonEmptyChunkFrames[i])]
    /\ spc = "resolved" => result = Flatten(chunks)

C10_Witness ==
  /\ spc = "resolved"
  /\ frames = <<"chunkA", "chunkE9", "done">>
  /\ chunks = << <<"A">>, <<"U+00E9">> >>
  /\ result = <<"A", "U+00E9">>


(***************************************************************************)
(*                     CLAIMS ON THE START BUTTON                          *)
(***************************************************************************)
\* A step in which handleStartProcessing ran.
StartStep == sendCalls' # sendCalls \/ warnings' # warnings

PendingIds ==
  {tasks[i].id : i \in {j \in 1..Len(tasks) : tasks[j].status = "pending"}}

SentIds(msg) == {msg.ids[i] : i \in 1..Len(msg.ids)}

\* C34: no task id is listed in two start_processing messages.  (A task
\* that is pending has had no event change its status: no event of the
\* model sets a status back to pending.)
C34_NoTaskSentTwice ==
  \A m, n \in 1..Len(sendCalls) :
    m # n => SentIds(sendCalls[m]) \cap SentIds(sendCalls[n]) = {}

\* C35: streamSummary does not resolve with an empty summary: when it has
\* resolved, the result is not empty and onChunk was called at least once.
C35_NeverResolvesEmpty ==
  spc = "resolved" => (result # <<>> /\ chunks # <<>>)

\* C36: a last frame whose bytes all arrived but which no separator
\* follows when the stream closes is processed like the others: the onChunk
\* calls and the outcome are those of the same stream with the separator
\* after its last frame.
C36_UnterminatedLastFrameProcessed ==
  ReadFinished => SameOutcome(OneRead(WireOf(frames, TRUE)))

\* The message an error frame carries.
MessageOf(k) ==
  CASE k = "error"      -> "E"
    [] k = "errorEmpty" -> ""

\* The read loop got to an error frame.
ErrorFrameProcessed ==
  /\ ReadFinished
  /\ Processed(frames, lastTerminated) # <<>>
  /\ Processed(frames, lastTerminated)[Len(Processed(frames, lastTerminated))]
       \in ErrorKinds

ErrorFrame ==
  Processed(frames, lastTerminated)[Len(Processed(frames, lastTerminated))]

OnChunkUpTo ==
  chunks = [i \in 1..Len(NonEmptyChunkFrames) |-> TextOf(NonEmptyChunkFrames[i])]

\* C25 as stated: when the read loop decodes an error frame, streamSummary
\* fails with the message of the frame, whether or not chunks came before
\* it, and onChunk is called for no frame after it.
C25_ErrorFrameFailsWithItsMessage ==
  ErrorFrameProcessed =>
    /\ spc = "rejected"
    /\ failure = MessageOf(ErrorFrame)
    /\ OnChunkUpTo

\* C25 as amended: the same, the error carrying the message of the frame
\* when that message is not empty and the default text when it is.
C25_ErrorFrameFailsWithMessageOrDefault ==
  ErrorFrameProcessed =>
    /\ spc = "rejected"
    /\ failure = (IF MessageOf(ErrorFrame) = "" THEN "SummaryFailed"
                  ELSE MessageOf(ErrorFrame))
    /\ OnChunkUpTo

C25_Witness ==
  /\ frames = <<"chunkA", "error", "chunkE9">>
  /\ lastTerminated
  /\ spc = "rejected" /\ failure = "E"
  /\ chunks = << <<"A">> >>

\* The read loop got to a done frame.
DoneFrameProcessed ==
  /\ ReadFinished
  /\ Processed(frames, lastTerminated) # <<>>
  /\ Processed(frames, lastTerminated)[Len(Processed(frames, lastTerminated))]
       = "done"

\* C26: when the read loop decodes a done frame, streamSummary resolves
\* with the text accumulated up to it, having reported progress 95 last;
\* the frames after it, in the buffer or still unread, cause no onChunk
\* call and are not part of the result.
C26_DoneFrameResolvesAtOnce ==
  DoneFrameProcessed =>
    /\ spc = "resolved"
    /\ OnChunkUpTo
    /\ result = Flatten(chunks)
    /\ progressLog = <<65, 70, 95>>

C26_Witness ==
  /\ frames = <<"chunkA", "done", "chunkE9">>
  /\ lastTerminated
  /\ spc = "resolved" /\ result = <<"A">>
  /\ chunks = << <<"A">> >>
  /\ wire # <<>>

\* The read loop was left at the end of the stream: no frame that ends the
\* call was processed.
EndedWithoutDone ==
  /\ ReadFinished
  /\ \A i \in 1..Len(Processed(frames, lastTerminated)) :
       Processed(frames, lastTerminated)[i] \notin EndingKinds

\* C19: when the stream ends without a done frame, streamSummary fails with
\* the empty-response error if the accumulated summary is empty, and
\* resolves with the accumulated text if that text is not empty, whatever
\* its characters.
C19_EndOfStreamOutcome ==
  EndedWithoutDone =>
    /\ summary = <<>> => (spc = "rejected" /\ failure = "EmptyResponse")
    /\ summary # <<>> => (spc = "resolved" /\ result = summary)


(***************************************************************************)
(*                     CLAIMS ON THE BACKEND PROCESS MANAGER               *)
(***************************************************************************)
\* C39: the close event of a child process other than the one the manager
\* holds does not clear the manager's reference: after stop() and start(),
\* the exit of the stopped process leaves isRunning() true for the new one.
C39_CloseOfOldKeepsReference ==
  [][\A p \in Pids :
       (ProcessClose(p) /\ process \notin {NoProcess, p})
       => process' = process]_vars

=============================================================================
